---------------------------- MODULE Spec2Model ----------------------------
(***************************************************************************)
(* Model of the dailyreminder notification engine:                         *)
(*   - EmailService (src/src/services/emailService.js): one send call      *)
(*     with its retry loop, history logging and realtime notice;           *)
(*   - RecurrenceService.getEventsNeedingNotification and                  *)
(*     getNextOccurrence (src/unnamed/part_004), driven by the 15 minute   *)
(*     cron job of NotificationScheduler.                                  *)
(* Instants are counted in units of 5 minutes of Europe/Berlin wall-clock  *)
(* time since 2024-01-01 00:00; the modelled span has no DST change.       *)
(***************************************************************************)
EXTENDS Integers, Sequences, FiniteSets, TLC

VARIABLES
    \* ---- EmailConfig / SocketService / notification_history ----
    isConfigured,      \* emailConfig.isReady()
    connectedClients,  \* emails of the authenticated socket clients
    history,           \* rows of notification_history, in insert order
    \* ---- one EmailService send call ----
    pc,                \* position of the call
    callId,            \* number of the current call
    callType,          \* 'event_reminder' or 'digest'
    callTo,            \* recipient email of the call
    retryCount,        \* retryCount argument of the live sendEmail frame
    attempts,          \* outcomes of the finished transporter.sendMail calls
    mailerCalls,       \* transporter.sendMail invocations of this call
    sleeps,            \* delays handed to setTimeout by this call
    slept,             \* how many of those timers have fired
    error,             \* error caught by the send function's catch block
    outcome,           \* how the call ended: returned / raised
    raised,            \* the error thrown to the caller
    insertErrors,      \* inserts of this call rejected by the store
    \* ---- scheduler / matcher ----
    now,               \* the clock
    events,            \* the event store: events with their recipient links
    cronFired,         \* instant of the last reminder-check cron tick
    lastDue,           \* eventsNeedingNotification of the last check
    emitted,           \* every DueNotification emitted, with its pass time
    stats,             \* NotificationScheduler.stats
    \* ---- scheduler jobs and runs ----
    jobs,              \* NotificationScheduler.jobs: job name -> cron task
    liveTasks,         \* cron tasks started and not stopped
    nextTask,          \* cron tasks created so far
    isRunning,         \* NotificationScheduler.isRunning
    initPending,       \* init() calls awaiting emailService.init()
    initialTimers,     \* pending setTimeout(checkPendingNotifications, 5000)
    stopped,           \* stop() has returned and init() was not called since
    runs,              \* the job runs started so far, finished ones included
    \* ---- one RecurrenceService computation ----
    calcEvent,         \* the event argument
    rangeStart,        \* startDate
    rangeEnd,          \* endDate
    maxCount,          \* maxOccurrences
    calcNow,           \* moment() seen by getNextOccurrence
    occurrences,       \* result of calculateUpcomingOccurrences
    nextOcc,           \* result of getNextOccurrence
    eventNext,         \* result of the Event model's getNextOccurrence
    computed,          \* which of the results have been computed
    \* ---- digests ----
    digests            \* the digest sends so far, with what they were built from

sendVars == <<pc, callId, callType, callTo, retryCount, attempts, mailerCalls,
              sleeps, slept, error, outcome, raised, insertErrors>>
envVars == <<isConfigured, connectedClients, history>>
pollVars == <<now, events, cronFired, lastDue, emitted, stats>>
schedVars == <<jobs, liveTasks, nextTask, isRunning, initPending,
               initialTimers, stopped, runs>>
calcVars == <<calcEvent, rangeStart, rangeEnd, maxCount, calcNow, occurrences,
              nextOcc, eventNext, computed>>
digestVars == <<digests>>
vars == <<isConfigured, connectedClients, history, pc, callId, callType,
          callTo, retryCount, attempts, mailerCalls, sleeps, slept, error,
          outcome, raised, insertErrors, now, events, cronFired, lastDue,
          emitted, stats, jobs, liveTasks, nextTask, isRunning, initPending,
          initialTimers, stopped, runs, calcEvent, rangeStart, rangeEnd,
          maxCount, calcNow, occurrences, nextOcc, eventNext, computed,
          digests>>

---------------------------------------------------------------------------
\* Bounds of the model
MaxCalls == 2
Emails == {"a@x", "b@x"}

---------------------------------------------------------------------------
\* EmailService.constructor

\* this.retryDelays = [1000, 5000, 15000, 60000]
retryDelays == <<1000, 5000, 15000, 60000>>

\* this.maxRetries = this.retryDelays.length
maxRetries == Len(retryDelays)

\* retryDelays[retryCount]; an index past the end reads undefined, which
\* setTimeout treats as no delay
delayFor(rc) == IF rc + 1 \in DOMAIN retryDelays THEN retryDelays[rc + 1] ELSE 0

canRetry_mut(rc) == rc < maxRetries

\* if (retryCount < this.maxRetries - 1)
canRetry(rc) == rc < maxRetries - 1

---------------------------------------------------------------------------
\* Errors; a record's error_message is error.message, identified here with
\* the error itself.  NoError stands for null.
NoError == [kind |-> "none", attempt |-> 0]
TransportError(k) == [kind |-> "transport", attempt |-> k]
NotConfiguredError == [kind |-> "not_configured", attempt |-> 0]
NoticeError == [kind |-> "notice", attempt |-> 0]

\* values = [eventId, recipientEmail, notificationType, status, errorMessage]
sentRecord(c, type, to) ==
    [call |-> c, type |-> type, to |-> to, status |-> "sent", error |-> NoError]

failedRecord_mut(c, type, to, err) ==
    [call |-> c, type |-> type, to |-> to, status |-> "failed", error |-> NoError]

failedRecord(c, type, to, err) ==
    [call |-> c, type |-> type, to |-> to, status |-> "failed", error |-> err]

\* EmailService.logNotification: the insert is appended when the store
\* accepts it; a rejected insert is caught and swallowed
logNotification(rec, accepted) ==
    /\ history' = IF accepted THEN Append(history, rec) ELSE history
    /\ insertErrors' = IF accepted THEN insertErrors ELSE insertErrors + 1

\* SocketService.isUserConnected
isUserConnected(email) == email \in connectedClients

---------------------------------------------------------------------------
\* EmailService.sendEmail, entered with retry count rc after prior earlier
\* transporter.sendMail calls: the isReady check and the start of
\* transporter.sendMail.  A thrown configuration error lands in the catch
\* block of the send function.
sendEmail(rc, prior) ==
    /\ retryCount' = rc
    /\ IF isConfigured
         THEN /\ pc' = "sending"
              /\ mailerCalls' = prior + 1
              /\ error' = NoError
         ELSE /\ pc' = "logFailed"
              /\ mailerCalls' = prior
              /\ error' = NotConfiguredError

\* Entry of sendEventReminder / sendDailyDigest up to the first await
BeginSend(type, to) ==
    /\ pc \in {"idle", "done"}
    /\ callId < MaxCalls
    /\ callId' = callId + 1
    /\ callType' = type
    /\ callTo' = to
    /\ attempts' = <<>>
    /\ sleeps' = <<>>
    /\ slept' = 0
    /\ outcome' = "none"
    /\ raised' = NoError
    /\ insertErrors' = 0
    /\ sendEmail(0, 0)
    /\ UNCHANGED <<envVars, pollVars, schedVars,
                   calcVars, digestVars>>

sendEventReminder(to) == BeginSend("event_reminder", to)

sendDailyDigest(to) == BeginSend("digest", to)

\* transporter.sendMail resolves: sendEmail returns and the 'sent' insert
\* is issued
MailerResolves ==
    /\ pc = "sending"
    /\ attempts' = Append(attempts, "ok")
    /\ pc' = "logSent"
    /\ UNCHANGED <<callId, callType, callTo, retryCount, mailerCalls, sleeps,
                   slept, error, outcome, raised, insertErrors, envVars,
                   pollVars, schedVars,
                   calcVars, digestVars>>

\* transporter.sendMail rejects: retry after the backoff delay, or throw
MailerRejects ==
    /\ pc = "sending"
    /\ attempts' = Append(attempts, "fail")
    /\ IF canRetry(retryCount)
         THEN /\ sleeps' = Append(sleeps, delayFor(retryCount))
              /\ pc' = "backoff"
              /\ error' = error
         ELSE /\ sleeps' = sleeps
              /\ pc' = "logFailed"
              /\ error' = TransportError(retryCount + 1)
    /\ UNCHANGED <<callId, callType, callTo, retryCount, mailerCalls, slept,
                   outcome, raised, insertErrors, envVars, pollVars, schedVars,
                   calcVars, digestVars>>

\* the backoff timer fires: return this.sendEmail(mailOptions, retryCount + 1)
BackoffElapsed ==
    /\ pc = "backoff"
    /\ slept' = slept + 1
    /\ sendEmail(retryCount + 1, mailerCalls)
    /\ UNCHANGED <<callId, callType, callTo, attempts, sleeps, outcome, raised,
                   insertErrors, envVars, pollVars, schedVars,
                   calcVars, digestVars>>

\* the 'sent' insert settles; then the realtime notice and the return.
\* socketService.sendNotificationToUsers has no try/catch: an emit that
\* throws is caught by the catch block of the send function.
SentLogged(accepted, noticeThrows) ==
    /\ pc = "logSent"
    /\ logNotification(sentRecord(callId, callType, callTo), accepted)
    /\ IF isUserConnected(callTo) /\ noticeThrows
         THEN /\ pc' = "logFailed"
              /\ error' = NoticeError
              /\ UNCHANGED <<outcome, raised>>
         ELSE /\ pc' = "done"
              /\ outcome' = "returned"
              /\ UNCHANGED <<error, raised>>
    /\ UNCHANGED <<callId, callType, callTo, retryCount, attempts, mailerCalls,
                   sleeps, slept, isConfigured, connectedClients, pollVars, schedVars,
                   calcVars, digestVars>>

\* the catch block: the 'failed' insert settles, then throw error
FailedLogged(accepted) ==
    /\ pc = "logFailed"
    /\ logNotification(failedRecord(callId, callType, callTo, error), accepted)
    /\ pc' = "done"
    /\ outcome' = "raised"
    /\ raised' = error
    /\ UNCHANGED <<callId, callType, callTo, retryCount, attempts, mailerCalls,
                   sleeps, slept, error, isConfigured, connectedClients,
                   pollVars, schedVars,
                   calcVars, digestVars>>

\* a socket client authenticates / disconnects
ClientConnects(e) ==
    /\ e \notin connectedClients
    /\ connectedClients' = connectedClients \cup {e}
    /\ UNCHANGED <<isConfigured, history, sendVars, pollVars, schedVars,
                   calcVars, digestVars>>

ClientDisconnects(e) ==
    /\ e \in connectedClients
    /\ connectedClients' = connectedClients \ {e}
    /\ UNCHANGED <<isConfigured, history, sendVars, pollVars, schedVars,
                   calcVars, digestVars>>

\* EmailConfig.init run again (scheduler restart): the connection test
\* passes or fails
EmailConfigInit(ok) ==
    /\ isConfigured # ok
    /\ isConfigured' = ok
    /\ UNCHANGED <<connectedClients, history, sendVars, pollVars, schedVars,
                   calcVars, digestVars>>

---------------------------------------------------------------------------
\* Time: one unit is 5 minutes
Hour == 12
Day == 24 * Hour

\* cron '*/15 * * * *': the reminder check fires every 15 minutes
PollEvery == 3

\* Bounds of the polling model
MaxTicks == 300
MaxLead == 2
MaxRecipients == 2
LastYear == 2027

Null == -1

\* moment: isLeapYear, daysInMonth
isLeapYear(y) == (y % 4 = 0 /\ y % 100 # 0) \/ y % 400 = 0

daysInMonth(y, m) ==
    IF m = 2 THEN (IF isLeapYear(y) THEN 29 ELSE 28)
    ELSE IF m \in {4, 6, 9, 11} THEN 30 ELSE 31

RECURSIVE DaysBeforeYear(_)
DaysBeforeYear(y) ==
    IF y <= 2024 THEN 0
    ELSE DaysBeforeYear(y - 1) + (IF isLeapYear(y - 1) THEN 366 ELSE 365)

RECURSIVE DaysBeforeMonth(_, _)
DaysBeforeMonth(y, m) ==
    IF m <= 1 THEN 0 ELSE DaysBeforeMonth(y, m - 1) + daysInMonth(y, m - 1)

\* the instant of a wall-clock date and time of day
Instant(y, m, d, slot) ==
    (DaysBeforeYear(y) + DaysBeforeMonth(y, m) + d - 1) * Day + slot

\* moment getters
YearOf(t) ==
    CHOOSE y \in 2024..LastYear :
        DaysBeforeYear(y) * Day <= t /\ t < DaysBeforeYear(y + 1) * Day

MonthOf(t) ==
    CHOOSE m \in 1..12 :
        LET d == (t \div Day) - DaysBeforeYear(YearOf(t))
        IN  DaysBeforeMonth(YearOf(t), m) <= d
            /\ d < DaysBeforeMonth(YearOf(t), m) + daysInMonth(YearOf(t), m)

DateOf(t) ==
    (t \div Day) - DaysBeforeYear(YearOf(t))
        - DaysBeforeMonth(YearOf(t), MonthOf(t)) + 1

SlotOf(t) == t % Day

\* moment#year(y): same month, day and time in year y; a Feb 29 is clamped
\* to the last day of February
setYear(t, y) ==
    Instant(y, MonthOf(t),
            IF DateOf(t) > daysInMonth(y, MonthOf(t))
              THEN daysInMonth(y, MonthOf(t)) ELSE DateOf(t),
            SlotOf(t))

\* moment#add(n, 'months'): the day of month is clamped to the target month
addMonths(t, n) ==
    LET idx == YearOf(t) * 12 + (MonthOf(t) - 1) + n
        y == idx \div 12
        m == (idx % 12) + 1
        d == IF DateOf(t) > daysInMonth(y, m) THEN daysInMonth(y, m)
             ELSE DateOf(t)
    IN  Instant(y, m, d, SlotOf(t))

\* moment#add(value, unit)
add(t, value, unit) ==
    IF unit = "days" THEN t + value * Day
    ELSE IF unit = "months" THEN addMonths(t, value)
    ELSE addMonths(t, 12 * value)

\* while (nextOccurrence.isSameOrBefore(now)) nextOccurrence.add(value, unit)
RECURSIVE addUntilAfter(_, _, _, _)
addUntilAfter(t, at, value, unit) ==
    IF t <= at THEN addUntilAfter(add(t, value, unit), at, value, unit) ELSE t

\* RecurrenceService.getNextOccurrence, with moment() = at
getNextOccurrence(event, at) ==
    IF event.recurrence_type = "one_off"
      THEN (IF event.event_date > at THEN event.event_date ELSE Null)
    ELSE IF event.recurrence_type = "yearly"
      THEN LET thisYear == setYear(event.event_date, YearOf(at))
           IN  IF thisYear <= at THEN add(thisYear, 1, "years") ELSE thisYear
    ELSE IF /\ event.recurrence_type = "custom_interval"
            /\ event.recurrence_value # 0
            /\ event.recurrence_unit # "none"
      THEN addUntilAfter(event.event_date, at, event.recurrence_value,
                         event.recurrence_unit)
    ELSE Null

\* moment.duration(value, unit).asMilliseconds(), in time units: a duration
\* keeps months apart from days, and asMilliseconds counts a month as
\* 146097 / 4800 days, rounded to whole days over all the months
durationAsTime(value, unit) ==
    LET months == IF unit = "months" THEN value
                  ELSE IF unit = "years" THEN 12 * value ELSE 0
        days == IF unit = "days" THEN value ELSE 0
    IN  (days + (2 * months * 146097 + 4800) \div 9600) * Day

\* Event.prototype.getNextOccurrence of the Event model, with moment() = at
Event_getNextOccurrence(event, at) ==
    IF event.recurrence_type = "one_off"
      THEN (IF event.event_date > at THEN event.event_date ELSE Null)
    ELSE IF event.recurrence_type = "yearly"
      THEN LET thisYear == setYear(event.event_date, YearOf(at))
           IN  IF thisYear <= at THEN add(thisYear, 1, "years") ELSE thisYear
    ELSE IF /\ event.recurrence_type = "custom_interval"
            /\ event.recurrence_value # 0
            /\ event.recurrence_unit # "none"
      THEN LET intervalsPassed ==
                   (at - event.event_date)
                       \div durationAsTime(event.recurrence_value,
                                           event.recurrence_unit)
               jumped == IF event.event_date < at
                           THEN add(event.event_date, intervalsPassed + 1,
                                    event.recurrence_unit)
                           ELSE event.event_date
           IN  addUntilAfter(jumped, at, event.recurrence_value,
                             event.recurrence_unit)
    ELSE Null

\* const leadTimeHours = recipient.notification_lead_time || 24
leadTimeHours(recipient) ==
    IF recipient.notification_lead_time = 0 THEN 24
    ELSE recipient.notification_lead_time

\* now.isBetween(notificationTime, notificationTime.clone().add(1, 'hour'))
\* isBetween excludes both ends by default
needsNotification(at, notificationTime) ==
    notificationTime < at /\ at < notificationTime + Hour

\* the object pushed for one recipient
dueNotification(event, recipient, eventDate) ==
    [eventId |-> event.id,
     event_date |-> event.event_date,
     email |-> recipient.email,
     eventDate |-> eventDate,
     notificationLeadTime |-> leadTimeHours(recipient),
     shouldNotifyAt |-> eventDate - leadTimeHours(recipient) * Hour]

\* the inner loop over eventWithRecipients.recipients
RECURSIVE dueForRecipients(_, _, _, _)
dueForRecipients(event, recipients, eventDate, at) ==
    IF recipients = <<>> THEN <<>>
    ELSE LET r == Head(recipients)
             rest == dueForRecipients(event, Tail(recipients), eventDate, at)
         IN  IF needsNotification(at, eventDate - leadTimeHours(r) * Hour)
               THEN <<dueNotification(event, r, eventDate)>> \o rest
               ELSE rest

\* RecurrenceService.getEventsNeedingNotification, with moment() = at:
\* the loop over Event.findAll({ active: true })
RECURSIVE getEventsNeedingNotification(_, _)
getEventsNeedingNotification(evs, at) ==
    IF evs = <<>> THEN <<>>
    ELSE LET event == Head(evs)
             rest == getEventsNeedingNotification(Tail(evs), at)
             next == getNextOccurrence(event, at)
         IN  IF ~event.active \/ next = Null THEN rest
             ELSE dueForRecipients(event, event.recipients, next, at) \o rest

\* moment#isBetween(a, b, null, '[]')
isBetween_mut(t, a, b) == a < t /\ t < b

isBetween(t, a, b) == a <= t /\ t <= b

\* an element of the occurrences array
occurrence_mut(date, n) == [date |-> date, occurrenceNumber |-> n - 1]

occurrence(date, n) == [date |-> date, occurrenceNumber |-> n]

\* the for loop of the yearly branch, from year on, occurrenceCount = count
RECURSIVE yearlyOccurrences(_, _, _, _, _, _)
yearlyOccurrences(baseDate, start, end, year, count, maxOccurrences) ==
    IF year <= YearOf(end) /\ count < maxOccurrences
      THEN LET occ == setYear(baseDate, year)
           IN  IF isBetween(occ, start, end)
                 THEN <<occurrence(occ, year - YearOf(baseDate) + 1)>> \o
                      yearlyOccurrences(baseDate, start, end, year + 1,
                                        count + 1, maxOccurrences)
                 ELSE yearlyOccurrences(baseDate, start, end, year + 1,
                                        count, maxOccurrences)
      ELSE <<>>

\* while (currentDate.isBefore(start)) currentDate.add(value, unit)
RECURSIVE addUntilNotBefore_mut(_, _, _, _)
addUntilNotBefore_mut(t, start, value, unit) ==
    IF t <= start THEN addUntilNotBefore_mut(add(t, value, unit), start, value, unit)
    ELSE t

RECURSIVE addUntilNotBefore(_, _, _, _)
addUntilNotBefore(t, start, value, unit) ==
    IF t < start THEN addUntilNotBefore(add(t, value, unit), start, value, unit)
    ELSE t

\* the emitting while loop of the custom_interval branch, from currentDate
\* on, occurrenceCount = intervalCount = count
RECURSIVE intervalOccurrences(_, _, _, _, _, _)
intervalOccurrences(currentDate, end, value, unit, count, maxOccurrences) ==
    IF currentDate <= end /\ count < maxOccurrences
      THEN <<occurrence(currentDate, count + 1)>> \o
           intervalOccurrences(add(currentDate, value, unit), end, value, unit,
                               count + 1, maxOccurrences)
      ELSE <<>>

\* Array.prototype.sort by date (stable): insertion of o into a sorted list
RECURSIVE insertByDate(_, _)
insertByDate(o, sorted) ==
    IF sorted = <<>> THEN <<o>>
    ELSE IF o.date < Head(sorted).date THEN <<o>> \o sorted
    ELSE <<Head(sorted)>> \o insertByDate(o, Tail(sorted))

RECURSIVE sortByDate(_)
sortByDate(occs) ==
    IF occs = <<>> THEN <<>>
    ELSE insertByDate(occs[Len(occs)], sortByDate(SubSeq(occs, 1, Len(occs) - 1)))

\* RecurrenceService.calculateUpcomingOccurrences
calculateUpcomingOccurrences(event, startDate, endDate, maxOccurrences) ==
    IF event.recurrence_type = "one_off"
      THEN (IF isBetween(event.event_date, startDate, endDate)
              THEN <<occurrence(event.event_date, 1)>>
              ELSE <<>>)
    ELSE IF event.recurrence_type = "yearly"
      THEN LET startYear == IF YearOf(startDate) > YearOf(event.event_date)
                              THEN YearOf(startDate)
                              ELSE YearOf(event.event_date)
           IN  sortByDate(yearlyOccurrences(event.event_date, startDate,
                                            endDate, startYear, 0,
                                            maxOccurrences))
    ELSE IF /\ event.recurrence_type = "custom_interval"
            /\ event.recurrence_value # 0
            /\ event.recurrence_unit # "none"
      THEN sortByDate(intervalOccurrences(
               addUntilNotBefore(event.event_date, startDate,
                                 event.recurrence_value, event.recurrence_unit),
               endDate, event.recurrence_value, event.recurrence_unit, 0,
               maxOccurrences))
    ELSE <<>>

---------------------------------------------------------------------------
NoStats == [totalChecks |-> 0, notificationsSent |-> 0, digestsSent |-> 0,
            errors |-> 0]

PollIdle ==
    /\ now = 0
    /\ events = <<>>
    /\ cronFired = -1
    /\ lastDue = <<>>
    /\ emitted = {}
    /\ stats = NoStats

SendIdle ==
    /\ pc = "idle"
    /\ callId = 0
    /\ callType = "none"
    /\ callTo = "none"
    /\ retryCount = 0
    /\ attempts = <<>>
    /\ mailerCalls = 0
    /\ sleeps = <<>>
    /\ slept = 0
    /\ error = NoError
    /\ outcome = "none"
    /\ raised = NoError
    /\ insertErrors = 0

\* the scheduler as constructed: no job, not running, no run started
SchedIdle ==
    /\ jobs = {}
    /\ liveTasks = {}
    /\ nextTask = 0
    /\ isRunning = FALSE
    /\ initPending = 0
    /\ initialTimers = 0
    /\ stopped = FALSE
    /\ runs = <<>>

\* no RecurrenceService computation under way
CalcIdle ==
    /\ calcEvent = <<>>
    /\ rangeStart = 0
    /\ rangeEnd = 0
    /\ maxCount = 0
    /\ calcNow = 0
    /\ occurrences = <<>>
    /\ nextOcc = Null
    /\ eventNext = Null
    /\ computed = {}

DigestIdle == digests = <<>>

Init ==
    /\ isConfigured \in BOOLEAN
    /\ connectedClients = {}
    /\ history = <<>>
    /\ SendIdle
    /\ PollIdle
    /\ SchedIdle
    /\ CalcIdle
    /\ DigestIdle

Next ==
    \/ \E to \in Emails : sendEventReminder(to)
    \/ \E to \in Emails : sendDailyDigest(to)
    \/ MailerResolves
    \/ MailerRejects
    \/ BackoffElapsed
    \/ \E accepted \in BOOLEAN, noticeThrows \in BOOLEAN :
          SentLogged(accepted, noticeThrows)
    \/ \E accepted \in BOOLEAN : FailedLogged(accepted)
    \/ \E e \in Emails : ClientConnects(e)
    \/ \E e \in Emails : ClientDisconnects(e)
    \/ \E ok \in BOOLEAN : EmailConfigInit(ok)

Spec == Init /\ [][Next]_vars

---------------------------------------------------------------------------
\* The reminder check under regular polling

\* NotificationScheduler.checkPendingNotifications, run by the cron job of
\* scheduleNotificationChecks at the instant now.  The reminders are sent
\* one after another; failed is the set of items whose sendEventReminder
\* raises.
checkPendingNotifications(failed) ==
    IF ~isConfigured
      THEN UNCHANGED <<lastDue, emitted, stats>>
      ELSE LET due == getEventsNeedingNotification(events, now)
               errorCount == Cardinality(failed)
               successCount == Len(due) - errorCount
           IN  /\ failed \subseteq 1..Len(due)
               /\ lastDue' = due
               /\ emitted' = emitted \cup
                     {[pass |-> now, due |-> due[i]] : i \in 1..Len(due)}
               /\ stats' = [stats EXCEPT
                     !.totalChecks = @ + 1,
                     !.notificationsSent = @ + successCount,
                     !.errors = @ + errorCount]

\* the cron job fires at every instant that is a multiple of 15 minutes
CronTick ==
    /\ now % PollEvery = 0
    /\ cronFired # now
    /\ cronFired' = now
    /\ \E failed \in SUBSET (1..Len(getEventsNeedingNotification(events, now))) :
          checkPendingNotifications(failed)
    /\ UNCHANGED <<now, events, envVars, sendVars, schedVars, calcVars, digestVars>>

\* the clock advances; a due cron tick fires first
PollStart == Instant(2025, 3, 14, 0)

Tick ==
    /\ now < PollStart + MaxTicks
    /\ now % PollEvery = 0 => cronFired = now
    /\ now' = now + 1
    /\ UNCHANGED <<events, cronFired, lastDue, emitted, stats, envVars,
                   sendVars, schedVars, calcVars, digestVars>>

\* recipient links: distinct emails, stored lead times 0..MaxLead hours
RecipientLists ==
    {<<[email |-> "a@x", notification_lead_time |-> l]>> : l \in 0..MaxLead}
    \cup (IF MaxRecipients < 2 THEN {}
          ELSE {<<[email |-> "a@x", notification_lead_time |-> l1],
                  [email |-> "b@x", notification_lead_time |-> l2]>> :
                    l1 \in 0..MaxLead, l2 \in 0..MaxLead})

\* the events of the store: an occurrence on 2025-03-15 at 00:30 or 00:35
\* as a one-off, as the anniversary of 2024-03-15, or as a daily interval
\* anchored two days earlier
EventShapes ==
    UNION {
      { [event_date |-> Instant(2025, 3, 15, slot),
         recurrence_type |-> "one_off",
         recurrence_value |-> 0, recurrence_unit |-> "none"],
        [event_date |-> Instant(2024, 3, 15, slot),
         recurrence_type |-> "yearly",
         recurrence_value |-> 0, recurrence_unit |-> "none"],
        [event_date |-> Instant(2025, 3, 13, slot),
         recurrence_type |-> "custom_interval",
         recurrence_value |-> 1, recurrence_unit |-> "days"] }
      : slot \in {6, 7} }

EventStores ==
    { <<[id |-> 1, active |-> TRUE, recipients |-> rs,
         event_date |-> sh.event_date,
         recurrence_type |-> sh.recurrence_type,
         recurrence_value |-> sh.recurrence_value,
         recurrence_unit |-> sh.recurrence_unit]>> :
        sh \in EventShapes, rs \in RecipientLists }

PollInit ==
    /\ isConfigured = TRUE
    /\ connectedClients = {}
    /\ history = <<>>
    /\ SendIdle
    /\ now = PollStart
    /\ events \in EventStores
    /\ cronFired = -1
    /\ lastDue = <<>>
    /\ emitted = {}
    /\ stats = NoStats
    /\ SchedIdle
    /\ CalcIdle
    /\ DigestIdle

PollNext ==
    \/ CronTick
    \/ Tick

PollSpec == PollInit /\ [][PollNext]_vars

---------------------------------------------------------------------------
\* the same polling on a store whose event recurs every day at 01:00 and whose
\* recipient has a lead time of 23 hours, shorter than the interval, or of
\* 25 hours, longer than it
LeadStores ==
    { <<[id |-> 1, active |-> TRUE,
         recipients |-> <<[email |-> "a@x", notification_lead_time |-> l]>>,
         event_date |-> Instant(2025, 3, 13, Hour),
         recurrence_type |-> "custom_interval",
         recurrence_value |-> 1, recurrence_unit |-> "days"]>> :
        l \in {23, 25} }

LeadInit ==
    /\ isConfigured = TRUE
    /\ connectedClients = {}
    /\ history = <<>>
    /\ SendIdle
    /\ now = PollStart
    /\ events \in LeadStores
    /\ cronFired = -1
    /\ lastDue = <<>>
    /\ emitted = {}
    /\ stats = NoStats
    /\ SchedIdle
    /\ CalcIdle
    /\ DigestIdle

LeadSpec == LeadInit /\ [][PollNext]_vars

---------------------------------------------------------------------------
\* The scheduler: init, stop, restart, the cron tasks and the runs of its jobs,
\* stepped at their awaits

MaxRuns == 2
MaxInits == 2

\* names under which init() registers its cron tasks
JobNames == {"notifications", "digests", "cleanup"}

\* rows of digest_preferences with enabled = true and frequency = 'daily'
DigestUsers == <<[email |-> "a@x"]>>

\* the instant of the runs: inside the notification hour of SchedStore's event
SchedNow == Instant(2025, 3, 14, 23 * Hour + 7)

\* a store of one active event on 2025-03-15 00:30 whose recipients have one
\* hour of lead time each
StoreOf(emails) ==
    <<[id |-> 1, active |-> TRUE,
       recipients |-> [i \in 1..Len(emails) |->
                         [email |-> emails[i], notification_lead_time |-> 1]],
       event_date |-> Instant(2025, 3, 15, 6),
       recurrence_type |-> "one_off",
       recurrence_value |-> 0, recurrence_unit |-> "none"]>>

SchedStore == StoreOf(<<"a@x">>)

RunStore == StoreOf(<<"a@x", "b@x">>)

\* the same store with the event as the anniversary of 2024-03-15 00:30
YearlyStore ==
    <<[RunStore[1] EXCEPT !.event_date = Instant(2024, 3, 15, 6),
                          !.recurrence_type = "yearly"]>>

\* a due notification whose event is no longer active or whose recipient is
\* no longer linked to it
isStale(n) ==
    ~ \E i \in 1..Len(events) :
          /\ events[i].id = n.eventId
          /\ events[i].active
          /\ \E j \in 1..Len(events[i].recipients) :
                events[i].recipients[j].email = n.email

\* init() up to its await of emailService.init()
SchedulerInitBegin ==
    /\ nextTask \div Cardinality(JobNames) + initPending < MaxInits
    /\ initPending' = initPending + 1
    /\ stopped' = FALSE
    /\ UNCHANGED <<jobs, liveTasks, nextTask, isRunning, initialTimers, runs,
                   envVars, sendVars, pollVars, calcVars, digestVars>>

\* the cron tasks one init() creates, registers and starts
newTasks ==
    { [name |-> "notifications", id |-> nextTask + 1],
      [name |-> "digests", id |-> nextTask + 2],
      [name |-> "cleanup", id |-> nextTask + 3] }

\* init() after emailService.init() has settled: result is "ok", "verifyFailed"
\* (the connection test failed) or "missingVars" (EmailConfig.init returned
\* before touching isConfigured)
SchedulerInitFinish(result) ==
    /\ initPending > 0
    /\ initPending' = initPending - 1
    /\ isConfigured' = CASE result = "ok" -> TRUE
                         [] result = "verifyFailed" -> FALSE
                         [] OTHER -> isConfigured
    /\ jobs' = newTasks
    /\ liveTasks' = liveTasks \cup newTasks
    /\ nextTask' = nextTask + Cardinality(JobNames)
    /\ isRunning' = TRUE
    /\ initialTimers' = initialTimers + 1
    /\ UNCHANGED <<stopped, runs, connectedClients, history, sendVars,
                   pollVars, calcVars, digestVars>>

\* stop(): stops the tasks registered in jobs and clears the map
stop ==
    /\ liveTasks' = liveTasks \ jobs
    /\ jobs' = {}
    /\ isRunning' = FALSE
    /\ stopped' = TRUE
    /\ UNCHANGED <<nextTask, initPending, initialTimers, runs, envVars,
                   sendVars, pollVars, calcVars, digestVars>>

\* restart(): stop(), then init() up to its await
restart ==
    /\ nextTask \div Cardinality(JobNames) + initPending < MaxInits
    /\ liveTasks' = liveTasks \ jobs
    /\ jobs' = {}
    /\ isRunning' = FALSE
    /\ stopped' = FALSE
    /\ initPending' = initPending + 1
    /\ UNCHANGED <<nextTask, initialTimers, runs, envVars, sendVars, pollVars,
                   calcVars, digestVars>>

\* a run as it starts: skipped when the job needs the mailer and it is not
\* configured; afterStop marks a run the scheduler itself started (cron task
\* or initial timer) while stopped
newRun(name, origin) ==
    [name |-> name,
     afterStop |-> stopped /\ origin # "manual",
     phase |-> IF name # "cleanup" /\ ~isConfigured THEN "skipped"
               ELSE "querying",
     items |-> <<>>,
     log |-> <<>>,
     successCount |-> 0,
     errorCount |-> 0]

\* entry of checkPendingNotifications / sendDailyDigests /
\* cleanupOldNotifications up to the first await
startRun(name, origin) ==
    /\ Len(runs) < MaxRuns
    /\ runs' = Append(runs, newRun(name, origin))
    /\ stats' = IF name = "notifications" /\ isConfigured
                  THEN [stats EXCEPT !.totalChecks = @ + 1]
                  ELSE stats
    /\ UNCHANGED <<now, events, cronFired, lastDue, emitted, envVars,
                   sendVars, calcVars, digestVars>>

\* a started cron task fires its callback
CronFires(task) ==
    /\ task \in liveTasks
    /\ startRun(task.name, "cron")
    /\ UNCHANGED <<jobs, liveTasks, nextTask, isRunning, initPending,
                   initialTimers, stopped>>

\* the timer armed at the end of init() fires
InitialCheckFires ==
    /\ initialTimers > 0
    /\ initialTimers' = initialTimers - 1
    /\ startRun("notifications", "initial")
    /\ UNCHANGED <<jobs, liveTasks, nextTask, isRunning, initPending, stopped>>

\* triggerNotificationCheck / cleanupNotifications of the email controller
ManualTrigger(name) ==
    /\ name = "notifications" => isConfigured
    /\ startRun(name, "manual")
    /\ UNCHANGED <<jobs, liveTasks, nextTask, isRunning, initPending,
                   initialTimers, stopped>>

\* what the run's query yields
queryItems(name) ==
    CASE name = "notifications" -> getEventsNeedingNotification(events, now)
      [] name = "digests" -> DigestUsers
      [] OTHER -> <<>>

\* the run's first await settles: the matcher / the digest_preferences query /
\* the DELETE returned (ok) or raised
QueryReturns(r, ok) ==
    /\ r \in 1..Len(runs)
    /\ runs[r].phase = "querying"
    /\ LET name == runs[r].name
           items == queryItems(name)
       IN  /\ runs' = [runs EXCEPT
                 ![r].items = IF ok THEN items ELSE <<>>,
                 ![r].phase = IF ok /\ items # <<>> THEN "sending"
                              ELSE IF ~ok /\ name = "cleanup" THEN "raised"
                              ELSE "done"]
           /\ stats' = IF ~ok /\ name # "cleanup"
                         THEN [stats EXCEPT !.errors = @ + 1]
                         ELSE stats
    /\ UNCHANGED <<jobs, liveTasks, nextTask, isRunning, initPending,
                   initialTimers, stopped, now, events, cronFired, lastDue,
                   emitted, envVars, sendVars, calcVars, digestVars>>

\* the loop after item k of n: the item's error was caught and counted, the
\* loop goes on to the next item
phaseAfterItem_mut(k, n, result) ==
    IF k < n /\ result # "raised" THEN "sending" ELSE "done"

phaseAfterItem(k, n, result) ==
    IF k < n THEN "sending" ELSE "done"

\* the counters after the loop of a run
countRun_mut(s, name, successCount, errorCount) ==
    IF name = "notifications"
      THEN [s EXCEPT !.notificationsSent = successCount,
                     !.errors = errorCount]
      ELSE [s EXCEPT !.digestsSent = successCount,
                     !.errors = errorCount]

countRun(s, name, successCount, errorCount) ==
    IF name = "notifications"
      THEN [s EXCEPT !.notificationsSent = @ + successCount,
                     !.errors = @ + errorCount]
      ELSE [s EXCEPT !.digestsSent = @ + successCount,
                     !.errors = @ + errorCount]

\* the send of one item as the run sees it: sendEmail raises at once when the
\* mailer is not configured, otherwise the mailer accepts the message or
\* fails on every attempt
sendResult(mailerOk) ==
    IF ~isConfigured THEN [result |-> "raised", error |-> NotConfiguredError]
    ELSE IF mailerOk THEN [result |-> "returned", error |-> NoError]
    ELSE [result |-> "raised", error |-> TransportError(maxRetries)]

\* EmailTemplates.eventReminder, reached through sendEventReminder with
\* notification.event: const eventDate = moment.tz(event.event_date, timezone)
\* is the instant the reminder states
eventReminder(notification) == [eventDate |-> notification.event_date]

\* one iteration of the run's loop: the next item is sent from the matcher's
\* snapshot, its history row is written and its outcome counted; after the
\* last item the run's counts are added to stats
DispatchItem(r, mailerOk) ==
    /\ r \in 1..Len(runs)
    /\ runs[r].phase = "sending"
    /\ LET run == runs[r]
           k == Len(run.log) + 1
           item == run.items[k]
           type == IF run.name = "notifications" THEN "event_reminder"
                   ELSE "daily_digest"
           res == sendResult(mailerOk)
           successCount == run.successCount +
                              (IF res.result = "returned" THEN 1 ELSE 0)
           errorCount == run.errorCount +
                              (IF res.result = "raised" THEN 1 ELSE 0)
           phase == phaseAfterItem(k, Len(run.items), res.result)
       IN  /\ history' = Append(history,
                 IF res.result = "returned"
                   THEN sentRecord(r, type, item.email)
                   ELSE failedRecord(r, type, item.email, res.error))
           /\ runs' = [runs EXCEPT
                 ![r].log = Append(@, [index |-> k,
                                       email |-> item.email,
                                       result |-> res.result,
                                       error |-> res.error,
                                       stale |-> IF run.name = "notifications"
                                                   THEN isStale(item)
                                                   ELSE FALSE,
                                       rendered |->
                                           IF run.name = "notifications"
                                             THEN eventReminder(item).eventDate
                                             ELSE Null]),
                 ![r].successCount = successCount,
                 ![r].errorCount = errorCount,
                 ![r].phase = phase]
           /\ stats' = IF phase = "done"
                         THEN countRun(stats, run.name, successCount,
                                       errorCount)
                         ELSE stats
    /\ UNCHANGED <<jobs, liveTasks, nextTask, isRunning, initPending,
                   initialTimers, stopped, now, events, cronFired, lastDue,
                   emitted, isConfigured, connectedClients, sendVars,
                   calcVars, digestVars>>

\* Event.delete(): the event is marked inactive
DeleteEvent(i) ==
    /\ i \in 1..Len(events)
    /\ events[i].active
    /\ events' = [events EXCEPT ![i].active = FALSE]
    /\ UNCHANGED <<now, cronFired, lastDue, emitted, stats, envVars, sendVars,
                   schedVars, calcVars, digestVars>>

\* Recipient.removeFromEvent(eventId): link j of event i is deleted
RemoveFromEvent(i, j) ==
    /\ i \in 1..Len(events)
    /\ j \in 1..Len(events[i].recipients)
    /\ events' = [events EXCEPT ![i].recipients =
                     SubSeq(@, 1, j - 1) \o SubSeq(@, j + 1, Len(@))]
    /\ UNCHANGED <<now, cronFired, lastDue, emitted, stats, envVars, sendVars,
                   schedVars, calcVars, digestVars>>

SchedInit ==
    /\ isConfigured = FALSE
    /\ connectedClients = {}
    /\ history = <<>>
    /\ SendIdle
    /\ now = SchedNow
    /\ events = SchedStore
    /\ cronFired = -1
    /\ lastDue = <<>>
    /\ emitted = {}
    /\ stats = NoStats
    /\ jobs = {}
    /\ liveTasks = {}
    /\ nextTask = 0
    /\ isRunning = FALSE
    /\ initPending = 0
    /\ initialTimers = 0
    /\ stopped = FALSE
    /\ runs = <<>>
    /\ CalcIdle
    /\ DigestIdle

SchedNext ==
    \/ SchedulerInitBegin
    \/ \E result \in {"ok", "verifyFailed", "missingVars"} :
          SchedulerInitFinish(result)
    \/ stop
    \/ restart
    \/ \E task \in liveTasks : CronFires(task)
    \/ InitialCheckFires
    \/ \E name \in {"notifications", "cleanup"} : ManualTrigger(name)
    \/ \E r \in 1..Len(runs), ok \in BOOLEAN : QueryReturns(r, ok)
    \/ \E r \in 1..Len(runs), mailerOk \in BOOLEAN : DispatchItem(r, mailerOk)

SchedSpec == SchedInit /\ [][SchedNext]_vars

---------------------------------------------------------------------------
\* The runs of a started scheduler while the mailer configuration changes
\* under them

\* the state after one init() with a verified mailer: the three cron tasks
\* started, the initial check armed
RunInit ==
    /\ isConfigured = TRUE
    /\ connectedClients = {}
    /\ history = <<>>
    /\ SendIdle
    /\ now = SchedNow
    /\ events \in {RunStore, YearlyStore}
    /\ cronFired = -1
    /\ lastDue = <<>>
    /\ emitted = {}
    /\ stats = NoStats
    /\ jobs = { [name |-> "notifications", id |-> 1],
                [name |-> "digests", id |-> 2],
                [name |-> "cleanup", id |-> 3] }
    /\ liveTasks = jobs
    /\ nextTask = Cardinality(JobNames)
    /\ isRunning = TRUE
    /\ initPending = 0
    /\ initialTimers = 1
    /\ stopped = FALSE
    /\ runs = <<>>
    /\ CalcIdle
    /\ DigestIdle

RunNext ==
    \/ \E task \in liveTasks : CronFires(task)
    \/ InitialCheckFires
    \/ \E name \in {"notifications", "cleanup"} : ManualTrigger(name)
    \/ \E r \in 1..Len(runs), ok \in BOOLEAN : QueryReturns(r, ok)
    \/ \E r \in 1..Len(runs), mailerOk \in BOOLEAN : DispatchItem(r, mailerOk)
    \/ \E ok \in BOOLEAN : EmailConfigInit(ok)

RunSpec == RunInit /\ [][RunNext]_vars

\* the same runs while events are deleted and recipients unlinked
StoreNext ==
    \/ RunNext
    \/ \E i \in 1..Len(events) : DeleteEvent(i)
    \/ \E i \in 1..Len(events) :
          \E j \in 1..Len(events[i].recipients) : RemoveFromEvent(i, j)

StoreSpec == RunInit /\ [][StoreNext]_vars

---------------------------------------------------------------------------
\* Digests: what the daily run, the weekly run and the manual send put into
\* a digest

MaxDigests == 2

\* Event.findAll({ active: true })
findAllActive(evs) == SelectSeq(evs, LAMBDA e : e.active)

\* the occurrences of one event as pushed to upcomingOccurrences: each
\* carries eventId: event.id
RECURSIVE occurrencesOf(_, _)
occurrencesOf(event, occs) ==
    IF occs = <<>> THEN <<>>
    ELSE <<[eventId |-> event.id, date |-> Head(occs).date,
            occurrenceNumber |-> Head(occs).occurrenceNumber]>>
         \o occurrencesOf(event, Tail(occs))

\* the for loop over the active events: at most 10 occurrences of each in
\* [at, endDate]
RECURSIVE upcomingOccurrences(_, _, _)
upcomingOccurrences(evs, at, endDate) ==
    IF evs = <<>> THEN <<>>
    ELSE occurrencesOf(Head(evs),
                       calculateUpcomingOccurrences(Head(evs), at, endDate, 10))
         \o upcomingOccurrences(Tail(evs), at, endDate)

firstOf(list, n) == SubSeq(list, 1, IF Len(list) < n THEN Len(list) ELSE n)

getUpcomingEventsForDigest_mut(evs, at, lookoutDays) ==
    firstOf(sortByDate(upcomingOccurrences(findAllActive(evs), at,
                                           at + lookoutDays * Day)), 10)

\* RecurrenceService.getUpcomingEventsForDigest, with moment() = at
getUpcomingEventsForDigest(evs, at, lookoutDays) ==
    sortByDate(upcomingOccurrences(findAllActive(evs), at,
                                   at + lookoutDays * Day))

\* Event.findWithRecipients(eventId): the active event of that id, if any,
\* and recipients.some(r => r.email === email)
isRecipient(evs, eventId, email) ==
    \E i \in 1..Len(evs) :
        /\ evs[i].id = eventId
        /\ evs[i].active
        /\ \E j \in 1..Len(evs[i].recipients) :
              evs[i].recipients[j].email = email

\* the filter loop of the daily and the weekly run
userEventsOf(evs, upcoming, email) ==
    SelectSeq(upcoming, LAMBDA o : isRecipient(evs, o.eventId, email))

\* rows of digest_preferences, enabled, by frequency; lookout_days 0 stands
\* for a missing value
DigestPreferences ==
    [daily |-> <<[email |-> "a@x", lookout_days |-> 0]>>,
     weekly |-> <<[email |-> "b@x", lookout_days |-> 0]>>]

\* user.lookout_days || 7 in the daily run, || 14 in the weekly run
lookoutDaysOf(user, frequency) ==
    IF user.lookout_days # 0 THEN user.lookout_days
    ELSE IF frequency = "daily" THEN 7 ELSE 14

\* what one digest send was built from and what it was handed
digestOf(kind, email, lookoutDays, upcoming, userEvents) ==
    [kind |-> kind, email |-> email, lookoutDays |-> lookoutDays,
     upcoming |-> upcoming, userEvents |-> userEvents]

\* the history row emailService.sendDailyDigest writes for send number c
digestRecord(c, email, ok) ==
    IF ok THEN sentRecord(c, "daily_digest", email)
    ELSE failedRecord(c, "daily_digest", email, TransportError(maxRetries))

\* the loop over the users of one run: one digest per user, from the
\* occurrences the user is a recipient of
RECURSIVE runDigests(_, _, _)
runDigests(users, frequency, k) ==
    IF k > Len(users) THEN <<>>
    ELSE LET user == users[k]
             lookoutDays == lookoutDaysOf(user, frequency)
             upcoming == getUpcomingEventsForDigest(events, now, lookoutDays)
         IN  <<digestOf(frequency, user.email, lookoutDays, upcoming,
                        userEventsOf(events, upcoming, user.email))>>
             \o runDigests(users, frequency, k + 1)

countOks(oks) == Cardinality({k \in DOMAIN oks : oks[k]})

\* sendDailyDigests() and sendWeeklyDigests(): oks[k] tells whether the send
\* to the k-th user went through
SendDigests(frequency, oks) ==
    LET users == DigestPreferences[frequency]
        sent == runDigests(users, frequency, 1)
    IN  /\ isConfigured
        /\ users # <<>>
        /\ DOMAIN oks = 1..Len(users)
        /\ Len(digests) + Len(users) <= MaxDigests
        /\ digests' = digests \o sent
        /\ history' = history \o
              [k \in 1..Len(users) |->
                  digestRecord(Len(digests) + k, users[k].email, oks[k])]
        /\ stats' = countRun(stats, "digests", countOks(oks),
                             Len(users) - countOks(oks))
        /\ UNCHANGED <<isConfigured, connectedClients, now, events, cronFired,
                       lastDue, emitted, sendVars, schedVars, calcVars>>

\* EmailController.triggerDailyDigest: POST of a digest for one address
TriggerDailyDigest(email, lookoutDays, ok) ==
    LET upcoming == getUpcomingEventsForDigest(events, now, lookoutDays)
        userEvents == firstOf(upcoming, 10)
    IN  /\ isConfigured
        /\ Len(digests) < MaxDigests
        /\ digests' = Append(digests, digestOf("manual", email, lookoutDays,
                                               upcoming, userEvents))
        /\ history' = Append(history, digestRecord(Len(digests) + 1, email, ok))
        /\ UNCHANGED <<isConfigured, connectedClients, pollVars, sendVars,
                       schedVars, calcVars>>

\* the instant of the digests
DigestNow == Instant(2025, 3, 12, 0)

\* three events: a daily interval linked to a@x, a one-off twelve days ahead
\* linked to b@x, an anniversary three days ahead linked to both
DigestEvents ==
    <<[id |-> 1, recipients |-> <<[email |-> "a@x", notification_lead_time |-> 1]>>,
       event_date |-> Instant(2025, 3, 1, 9 * Hour),
       recurrence_type |-> "custom_interval",
       recurrence_value |-> 1, recurrence_unit |-> "days"],
      [id |-> 2, recipients |-> <<[email |-> "b@x", notification_lead_time |-> 1]>>,
       event_date |-> Instant(2025, 3, 24, 0),
       recurrence_type |-> "one_off",
       recurrence_value |-> 0, recurrence_unit |-> "none"],
      [id |-> 3, recipients |-> <<[email |-> "a@x", notification_lead_time |-> 1],
                                  [email |-> "b@x", notification_lead_time |-> 1]>>,
       event_date |-> Instant(2024, 3, 15, 0),
       recurrence_type |-> "yearly",
       recurrence_value |-> 0, recurrence_unit |-> "none"]>>

\* the stores: each of the three events active or deleted
DigestStores ==
    { [i \in 1..Len(DigestEvents) |->
          [id |-> DigestEvents[i].id, active |-> act[i],
           recipients |-> DigestEvents[i].recipients,
           event_date |-> DigestEvents[i].event_date,
           recurrence_type |-> DigestEvents[i].recurrence_type,
           recurrence_value |-> DigestEvents[i].recurrence_value,
           recurrence_unit |-> DigestEvents[i].recurrence_unit]] :
        act \in [1..Len(DigestEvents) -> BOOLEAN] }

DigestInit ==
    /\ isConfigured = TRUE
    /\ connectedClients = {}
    /\ history = <<>>
    /\ SendIdle
    /\ now = DigestNow
    /\ events \in DigestStores
    /\ cronFired = -1
    /\ lastDue = <<>>
    /\ emitted = {}
    /\ stats = NoStats
    /\ SchedIdle
    /\ CalcIdle
    /\ DigestIdle

DigestNext ==
    \/ \E frequency \in {"daily", "weekly"} :
          \E oks \in [1..Len(DigestPreferences[frequency]) -> BOOLEAN] :
              SendDigests(frequency, oks)
    \/ \E email \in {"a@x", "b@x", "c@x"}, lookoutDays \in {7, 14},
          ok \in BOOLEAN : TriggerDailyDigest(email, lookoutDays, ok)

DigestSpec == DigestInit /\ [][DigestNext]_vars

---------------------------------------------------------------------------
\* The event controller: request validation in front of the events table

MaxEvents == 2

\* a request body is a function from the keys it carries to their values; a
\* JSON null is Null for recurrence_value and "none" for recurrence_unit
has(body, key) == key \in DOMAIN body

\* Joi.number().integer().min(1)
validValue(v) == v >= 1

\* Joi.string().valid('days', 'months', 'years')
validUnit(u) == u \in {"days", "months", "years"}

\* Joi.string().valid('one_off', 'yearly', 'custom_interval')
validType(t) == t \in {"one_off", "yearly", "custom_interval"}

\* recurrence_type after .default('one_off')
typeOrDefault(body) ==
    IF has(body, "recurrence_type") THEN body.recurrence_type ELSE "one_off"

\* eventSchema.validate(body) reports no error: with custom_interval both
\* recurrence keys are required, otherwise each may be left out or null
eventSchemaAccepts(body) ==
    /\ has(body, "recurrence_type") => validType(body.recurrence_type)
    /\ IF typeOrDefault(body) = "custom_interval"
         THEN /\ has(body, "recurrence_value")
              /\ validValue(body.recurrence_value)
              /\ has(body, "recurrence_unit")
              /\ validUnit(body.recurrence_unit)
         ELSE /\ has(body, "recurrence_value") =>
                    (body.recurrence_value = Null
                        \/ validValue(body.recurrence_value))
              /\ has(body, "recurrence_unit") =>
                    (body.recurrence_unit = "none"
                        \/ validUnit(body.recurrence_unit))

\* eventUpdateSchema.validate(body) reports no error: every key on its own
eventUpdateSchemaAccepts(body) ==
    /\ has(body, "recurrence_type") => validType(body.recurrence_type)
    /\ has(body, "recurrence_value") =>
          (body.recurrence_value = Null \/ validValue(body.recurrence_value))
    /\ has(body, "recurrence_unit") =>
          (body.recurrence_unit = "none" \/ validUnit(body.recurrence_unit))

\* a column as stored: NULL reads back as a falsy value
storedValue(v) == IF v = Null THEN 0 ELSE v

\* Event.create(eventData): the row inserted for a validated body
Event_create(id, body) ==
    [id |-> id, active |-> TRUE, recipients |-> <<>>,
     event_date |-> Instant(2025, 3, 15, 0),
     recurrence_type |-> typeOrDefault(body),
     recurrence_value |-> IF has(body, "recurrence_value")
                            THEN storedValue(body.recurrence_value) ELSE 0,
     recurrence_unit |-> IF has(body, "recurrence_unit")
                           THEN body.recurrence_unit ELSE "none"]

\* event.update(updateData): the keys that are given are set, the others
\* keep their value
Event_update(event, body) ==
    [event EXCEPT
       !.recurrence_type = IF has(body, "recurrence_type")
                             THEN body.recurrence_type ELSE @,
       !.recurrence_value = IF has(body, "recurrence_value")
                              THEN storedValue(body.recurrence_value) ELSE @,
       !.recurrence_unit = IF has(body, "recurrence_unit")
                             THEN body.recurrence_unit ELSE @]

\* the store after POST /events with this body
created(evs, body) ==
    IF eventSchemaAccepts(body) /\ Len(evs) < MaxEvents
      THEN Append(evs, Event_create(Len(evs) + 1, body))
      ELSE evs

\* the store after PUT /events/:id with this body
updated(evs, i, body) ==
    IF /\ eventUpdateSchemaAccepts(body)
       /\ i \in 1..Len(evs)
       /\ DOMAIN body # {}
      THEN [evs EXCEPT ![i] = Event_update(@, body)]
      ELSE evs

\* the request bodies: each of the three recurrence keys given or left out
RecurrenceKeys == {"recurrence_type", "recurrence_value", "recurrence_unit"}

FullBodies ==
    [recurrence_type : {"one_off", "custom_interval"},
     recurrence_value : {Null, 0, 1, 1000, 1001},
     recurrence_unit : {"none", "days", "weeks"}]

Bodies == { [key \in keys |-> full[key]] :
               full \in FullBodies, keys \in SUBSET RecurrenceKeys }

\* the bodies of the bulk requests
BulkBodies ==
    { body \in Bodies :
        /\ DOMAIN body = RecurrenceKeys
        /\ body.recurrence_type = "custom_interval"
        /\ body.recurrence_value \in {Null, 1, 1001}
        /\ body.recurrence_unit \in {"none", "days"} }

createEvent(body) ==
    /\ events' = created(events, body)
    /\ UNCHANGED <<now, cronFired, lastDue, emitted, stats, envVars, sendVars,
                   schedVars, calcVars, digestVars>>

updateEvent(i, body) ==
    /\ events' = updated(events, i, body)
    /\ UNCHANGED <<now, cronFired, lastDue, emitted, stats, envVars, sendVars,
                   schedVars, calcVars, digestVars>>

\* the for loop over the bodies: a body that fails validation is reported
\* and skipped
RECURSIVE bulkCreated(_, _)
bulkCreated(evs, bodies) ==
    IF bodies = <<>> THEN evs
    ELSE bulkCreated(created(evs, Head(bodies)), Tail(bodies))

bulkCreateEvents(bodies) ==
    /\ events' = bulkCreated(events, bodies)
    /\ UNCHANGED <<now, cronFired, lastDue, emitted, stats, envVars, sendVars,
                   schedVars, calcVars, digestVars>>

\* the for loop over the updates, each [id, body]
RECURSIVE bulkUpdated(_, _)
bulkUpdated(evs, updates) ==
    IF updates = <<>> THEN evs
    ELSE bulkUpdated(updated(evs, Head(updates).id, Head(updates).body),
                     Tail(updates))

bulkUpdateEvents(updates) ==
    /\ events' = bulkUpdated(events, updates)
    /\ UNCHANGED <<now, cronFired, lastDue, emitted, stats, envVars, sendVars,
                   schedVars, calcVars, digestVars>>

ValidInit ==
    /\ isConfigured = TRUE
    /\ connectedClients = {}
    /\ history = <<>>
    /\ SendIdle
    /\ now = SchedNow
    /\ events = <<>>
    /\ cronFired = -1
    /\ lastDue = <<>>
    /\ emitted = {}
    /\ stats = NoStats
    /\ SchedIdle
    /\ CalcIdle
    /\ DigestIdle

ValidNext ==
    \/ \E body \in Bodies : createEvent(body)
    \/ \E i \in 1..MaxEvents, body \in Bodies : updateEvent(i, body)
    \/ \E b1 \in BulkBodies, b2 \in BulkBodies : bulkCreateEvents(<<b1, b2>>)
    \/ \E i \in 1..MaxEvents, b1 \in BulkBodies, b2 \in BulkBodies :
          bulkUpdateEvents(<<[id |-> i, body |-> b1],
                             [id |-> MaxEvents + 1 - i, body |-> b2]>>)

ValidSpec == ValidInit /\ [][ValidNext]_vars

---------------------------------------------------------------------------
\* One computation of the RecurrenceService on an event, a range and a clock

MaxCount == 5

\* event_date values: a one-off and interval anchor T, yearly anchors in the
\* past, in a later year and on a leap day, a month-end anchor
AnchorT == Instant(2025, 3, 1, 9 * Hour)

CalcEvents ==
    { [event_date |-> AnchorT, recurrence_type |-> "one_off",
       recurrence_value |-> 0, recurrence_unit |-> "none"] }
    \cup { [event_date |-> a, recurrence_type |-> "yearly",
            recurrence_value |-> 0, recurrence_unit |-> "none"] :
             a \in {Instant(2024, 3, 15, 0), Instant(2026, 3, 15, 0),
                    Instant(2024, 2, 29, 0)} }
    \cup { [event_date |-> AnchorT, recurrence_type |-> "custom_interval",
            recurrence_value |-> v, recurrence_unit |-> "days"] :
             v \in {1, 7} }
    \cup { [event_date |-> Instant(2025, 1, 31, 0),
            recurrence_type |-> "custom_interval",
            recurrence_value |-> 1, recurrence_unit |-> "months"] }

RangeStarts == {Instant(2025, 1, 1, 0), AnchorT, AnchorT + 1, AnchorT + 3 * Day}

RangeEnds == {AnchorT - 1, AnchorT, AnchorT + 30 * Day, Instant(2027, 12, 31, 0)}

Clocks == {Instant(2025, 1, 1, 0), Instant(2025, 4, 1, 0), AnchorT - 1, AnchorT}

CalcInit ==
    /\ isConfigured = FALSE
    /\ connectedClients = {}
    /\ history = <<>>
    /\ SendIdle
    /\ PollIdle
    /\ SchedIdle
    /\ calcEvent \in CalcEvents
    /\ rangeStart \in RangeStarts
    /\ rangeEnd \in RangeEnds
    /\ maxCount \in 0..MaxCount
    /\ calcNow \in Clocks
    /\ occurrences = <<>>
    /\ nextOcc = Null
    /\ eventNext = Null
    /\ computed = {}
    /\ DigestIdle

\* a call of calculateUpcomingOccurrences(event, startDate, endDate, tz, max)
CalculateUpcomingOccurrences ==
    /\ "occurrences" \notin computed
    /\ occurrences' = calculateUpcomingOccurrences(calcEvent, rangeStart,
                                                   rangeEnd, maxCount)
    /\ computed' = computed \cup {"occurrences"}
    /\ UNCHANGED <<calcEvent, rangeStart, rangeEnd, maxCount, calcNow, nextOcc,
                   eventNext, envVars, sendVars, pollVars, schedVars,
                   digestVars>>

\* a call of getNextOccurrence(event, tz) at the instant calcNow
GetNextOccurrence ==
    /\ "next" \notin computed
    /\ nextOcc' = getNextOccurrence(calcEvent, calcNow)
    /\ computed' = computed \cup {"next"}
    /\ UNCHANGED <<calcEvent, rangeStart, rangeEnd, maxCount, calcNow,
                   occurrences, eventNext, envVars, sendVars, pollVars,
                   schedVars, digestVars>>

\* a call of event.getNextOccurrence(tz) of the Event model at calcNow
EventGetNextOccurrence ==
    /\ "eventNext" \notin computed
    /\ eventNext' = Event_getNextOccurrence(calcEvent, calcNow)
    /\ computed' = computed \cup {"eventNext"}
    /\ UNCHANGED <<calcEvent, rangeStart, rangeEnd, maxCount, calcNow,
                   occurrences, nextOcc, envVars, sendVars, pollVars,
                   schedVars, digestVars>>

CalcNext ==
    \/ CalculateUpcomingOccurrences
    \/ GetNextOccurrence
    \/ EventGetNextOccurrence

CalcSpec == CalcInit /\ [][CalcNext]_vars

---------------------------------------------------------------------------
\* Properties of one send call (specification Spec)

\* the history rows written by the current call
RecordsOfCall == SelectSeq(history, LAMBDA r : r.call = callId)

SentRecords == SelectSeq(RecordsOfCall, LAMBDA r : r.status = "sent")

FailedRecords == SelectSeq(RecordsOfCall, LAMBDA r : r.status = "failed")

\* the mailer failed on attempts 1..k-1 and accepted the message on attempt k
MailerSucceeded ==
    /\ attempts # <<>>
    /\ Len(attempts) <= maxRetries
    /\ attempts[Len(attempts)] = "ok"
    /\ \A i \in 1..(Len(attempts) - 1) : attempts[i] = "fail"

\* the mailer failed on every one of the maxRetries attempts
AllAttemptsFailed ==
    /\ Len(attempts) = maxRetries
    /\ \A i \in 1..Len(attempts) : attempts[i] = "fail"

\* C1: a send call appends exactly one history record, whatever the mailer
\* and the realtime notice do, given that the store accepts the inserts:
\* never two records, and one record once the call has ended.
C1_ExactlyOneRecord ==
    insertErrors = 0 =>
        /\ Len(RecordsOfCall) <= 1
        /\ pc = "done" => Len(RecordsOfCall) = 1

\* C2: when the mailer fails on attempts 1..k-1 and succeeds on attempt
\* k <= 4, the call returns success, every record it wrote has status
\* 'sent' and it wrote no 'failed' record.
C2_RetryThenSuccessIsSent ==
    MailerSucceeded =>
        /\ FailedRecords = <<>>
        /\ pc = "done" =>
              /\ outcome = "returned"
              /\ \A i \in 1..Len(RecordsOfCall) :
                    RecordsOfCall[i].status = "sent"

\* C3, as claimed: when the mailer fails on every configured attempt, the
\* ended call has written exactly one 'failed' record with a non-empty
\* error detail (the last attempt's error) and no 'sent' record, and it
\* raised.
C3_AllFailedWritesOneFailed ==
    (pc = "done" /\ AllAttemptsFailed) =>
        /\ Len(FailedRecords) = 1
        /\ FailedRecords[1].error # NoError
        /\ FailedRecords[1].error = TransportError(maxRetries)
        /\ SentRecords = <<>>
        /\ outcome = "raised"

\* C3, amended: the same, for a call whose 'failed' insert the history
\* store accepts; the call raises the last attempt's error either way.
C3_AllFailedWritesOneFailedIfStored ==
    (pc = "done" /\ AllAttemptsFailed) =>
        /\ SentRecords = <<>>
        /\ outcome = "raised"
        /\ raised = TransportError(maxRetries)
        /\ insertErrors = 0 =>
              /\ Len(FailedRecords) = 1
              /\ FailedRecords[1].error # NoError
              /\ FailedRecords[1].error = TransportError(maxRetries)

C3_Witness ==
    /\ pc = "done"
    /\ AllAttemptsFailed
    /\ insertErrors = 0
    /\ Len(FailedRecords) = 1
    /\ outcome = "raised"

\* C4: a send call invokes the mailer at most maxRetries = 4 times, one
\* call at a time; attempt k+1 starts only after attempt k has failed and
\* its backoff timer has fired, and no attempt follows a successful one.
C4_BoundedSequentialAttempts ==
    /\ mailerCalls <= maxRetries
    /\ maxRetries = 4
    /\ mailerCalls = Len(attempts) + (IF pc = "sending" THEN 1 ELSE 0)
    /\ \A i \in 1..(Len(attempts) - 1) : attempts[i] = "fail"
    /\ pc = "sending" =>
          /\ \A i \in 1..Len(attempts) : attempts[i] = "fail"
          /\ slept = Len(attempts)
          /\ Len(sleeps) = slept
    /\ mailerCalls <= slept + 1

C4_Witness ==
    /\ pc = "done"
    /\ mailerCalls = maxRetries
    /\ slept = maxRetries - 1
    /\ attempts[maxRetries] = "ok"

\* C5: in a send call whose attempts all fail, the backoff sleeps are the
\* configured delays 1s, 5s, 15s, 60s in that order, each used exactly once.
C5_EveryDelayUsedOnce ==
    (pc = "done" /\ AllAttemptsFailed) => sleeps = retryDelays

\* C6: once the mailer has accepted the message, a failing realtime notice
\* changes nothing: the call returns success, it raises nothing, and the
\* history holds no 'failed' record for it (and its 'sent' record when
\* the store accepted that insert).
C6_NoticeFailureIsHarmless ==
    (MailerSucceeded /\ error = NoticeError) =>
        /\ FailedRecords = <<>>
        /\ pc = "done" =>
              /\ outcome = "returned"
              /\ raised = NoError
              /\ insertErrors = 0 => Len(SentRecords) = 1

\* C7: a failing history insert never changes what the call reports: with
\* the mailer succeeded the call returns success, with every attempt
\* failed the call raises the mailer's error.
C7_InsertFailureKeepsOutcome ==
    (pc = "done" /\ insertErrors > 0) =>
        /\ MailerSucceeded => outcome = "returned"
        /\ AllAttemptsFailed =>
              (outcome = "raised" /\ raised = TransportError(maxRetries))

---------------------------------------------------------------------------
\* Properties of the matcher under regular polling (specification PollSpec)

\* the poll window of the design: the polling interval of 15 minutes
PollWindow == PollEvery

\* the (event, recipient link) pairs of the store
Links ==
    {<<i, j>> \in (DOMAIN events) \X (1..MaxRecipients) :
        j \in DOMAIN events[i].recipients}

LinkEvent(l) == events[l[1]]

LinkRecipient(l) == events[l[1]].recipients[l[2]]

\* notifyAt of a link for the occurrence occ, from the stored lead time
NotifyAt(l, occ) == occ - LinkRecipient(l).notification_lead_time * Hour

\* the DueNotifications emitted for a link and an occurrence
EmittedFor(l, occ) ==
    {e \in emitted : /\ e.due.eventId = LinkEvent(l).id
                     /\ e.due.email = LinkRecipient(l).email
                     /\ e.due.eventDate = occ}

\* C8: under regular 15 minute polling every due (occurrence, recipient)
\* pair is emitted by exactly one poll pass: never by two passes, and by
\* one pass once its poll window has gone by.
C8_ExactlyOnePass ==
    /\ \A e1 \in emitted, e2 \in emitted :
          (/\ e1.due.eventId = e2.due.eventId
           /\ e1.due.email = e2.due.email
           /\ e1.due.eventDate = e2.due.eventDate) => e1.pass = e2.pass
    /\ \A l \in Links :
          LET occ == getNextOccurrence(LinkEvent(l), now)
          IN  (/\ LinkEvent(l).active
               /\ occ # Null
               /\ PollStart <= NotifyAt(l, occ)
               /\ NotifyAt(l, occ) + PollWindow <= now)
              => Cardinality(EmittedFor(l, occ)) = 1

\* C9: a poll pass at the instant now emits a DueNotification for a link
\* of an active event with a next occurrence if and only if
\* notifyAt <= now < notifyAt + pollWindow.
C9_EmitsIffInWindow ==
    (cronFired = now /\ isConfigured) =>
        \A l \in Links :
            LET occ == getNextOccurrence(LinkEvent(l), now)
            IN  (LinkEvent(l).active /\ occ # Null) =>
                  ( (\E i \in DOMAIN lastDue :
                        /\ lastDue[i].eventId = LinkEvent(l).id
                        /\ lastDue[i].email = LinkRecipient(l).email)
                    <=> (/\ NotifyAt(l, occ) <= now
                         /\ now < NotifyAt(l, occ) + PollWindow) )

\* C10: every emitted DueNotification carries the lead time L stored on
\* its recipient link, for every L >= 0, and its notifyAt is the
\* occurrence minus L hours.
C10_StoredLeadTimeUsed ==
    \A e \in emitted : \A l \in Links :
        (/\ e.due.eventId = LinkEvent(l).id
         /\ e.due.email = LinkRecipient(l).email)
        => /\ e.due.notificationLeadTime
                 = LinkRecipient(l).notification_lead_time
           /\ e.due.shouldNotifyAt = NotifyAt(l, e.due.eventDate)

---------------------------------------------------------------------------
\* Properties of the scheduler's runs (specifications SchedSpec, RunSpec and
\* StoreSpec)

\* run r has started and not finished
InFlight(r) == runs[r].phase \in {"querying", "sending"}

\* C11: at any time at most one run of a job class is in flight: two runs
\* that are both under way never belong to the same job
C11_NoOverlappingRuns ==
    \A r1 \in 1..Len(runs), r2 \in 1..Len(runs) :
        (r1 # r2 /\ InFlight(r1) /\ InFlight(r2))
            => runs[r1].name # runs[r2].name

\* C12: once stop() has returned, neither a cron task nor the initial timer
\* starts a run before init() is called again, and a run that was in flight
\* ends only after it has processed all its items
C12_NoRunAfterStop ==
    \A r \in 1..Len(runs) :
        /\ ~ (runs[r].afterStop /\ runs[r].phase # "skipped")
        /\ runs[r].phase = "done" => Len(runs[r].log) = Len(runs[r].items)

\* C13: in a reminder-check run the items are attempted one by one in the
\* matcher's order, and the run ends only when every one of its items has
\* been attempted, whichever of them failed
C13_EveryItemAttempted ==
    \A r \in 1..Len(runs) :
        runs[r].name = "notifications" =>
            /\ Len(runs[r].log) <= Len(runs[r].items)
            /\ \A k \in 1..Len(runs[r].log) :
                  /\ runs[r].log[k].index = k
                  /\ runs[r].log[k].email = runs[r].items[k].email
            /\ runs[r].phase = "done" => Len(runs[r].log) = Len(runs[r].items)

\* a finished reminder check of two items whose first item failed and whose
\* second item was sent
C13_Witness ==
    \E r \in 1..Len(runs) :
        /\ runs[r].name = "notifications"
        /\ runs[r].phase = "done"
        /\ Len(runs[r].items) = 2
        /\ Len(runs[r].log) = 2
        /\ runs[r].log[1].result = "raised"
        /\ runs[r].log[2].result = "returned"

\* C14: a run never processes an item against an unconfigured mailer: no
\* item of a run fails for missing configuration and no history row records
\* such a failure, also when the configuration is lost during the run
C14_UnconfiguredShortCircuits ==
    /\ \A r \in 1..Len(runs) :
          \A k \in 1..Len(runs[r].log) :
              runs[r].log[k].error # NotConfiguredError
    /\ \A i \in 1..Len(history) : history[i].error # NotConfiguredError

\* C15: an item whose event was deleted or whose recipient was unlinked
\* after the matcher produced it is skipped, not mailed
C15_StaleItemSkipped ==
    \A r \in 1..Len(runs) :
        \A k \in 1..Len(runs[r].log) :
            runs[r].log[k].stale => runs[r].log[k].result = "skipped"

\* C16: no step of the scheduler (a run, a manual trigger, stop, restart)
\* decreases a counter of stats
C16_CountersNeverDecrease ==
    [][/\ stats'.totalChecks >= stats.totalChecks
       /\ stats'.notificationsSent >= stats.notificationsSent
       /\ stats'.digestsSent >= stats.digestsSent
       /\ stats'.errors >= stats.errors]_vars

\* two checks were started and a reminder was counted, the scheduler was
\* initialised a second time and then stopped
C16_Witness ==
    /\ stats.totalChecks >= 2
    /\ stats.notificationsSent >= 1
    /\ nextTask = 2 * Cardinality(JobNames)
    /\ stopped

---------------------------------------------------------------------------
\* Properties of the recurrence computations (specification CalcSpec)

YearlyInstants(anchor) ==
    { add(anchor, k, "years") : k \in 0..(LastYear - YearOf(anchor)) }

\* C18: for a yearly event getNextOccurrence returns the earliest instant of
\* anchor, anchor + 1 year, ... that is later than now, and so never an
\* instant before the anchor
C18_YearlyNextIsFirstAfterNow ==
    ("next" \in computed /\ calcEvent.recurrence_type = "yearly") =>
        /\ nextOcc \in YearlyInstants(calcEvent.event_date)
        /\ nextOcc > calcNow
        /\ \A t \in YearlyInstants(calcEvent.event_date) :
              t > calcNow => nextOcc <= t
        /\ nextOcc >= calcEvent.event_date

\* the instants T + k * v days that lie in [from, to]
IntervalInstants(T, v, from, to) ==
    { t \in { T + k * v * Day : k \in 0..((to - T) \div (v * Day) + 1) } :
        from <= t /\ t <= to }

\* C19: for a custom interval of v days anchored at T the list holds, in
\* ascending order, the earliest maxCount of the instants T + k * v days of
\* [rangeStart, rangeEnd], and all of them when there are at most maxCount
C19_DayIntervalOccurrences ==
    ( /\ "occurrences" \in computed
      /\ calcEvent.recurrence_type = "custom_interval"
      /\ calcEvent.recurrence_unit = "days" ) =>
        LET S == IntervalInstants(calcEvent.event_date,
                                  calcEvent.recurrence_value,
                                  rangeStart, rangeEnd)
            n == IF Cardinality(S) < maxCount THEN Cardinality(S)
                 ELSE maxCount
        IN  /\ Len(occurrences) = n
            /\ \A i \in 1..Len(occurrences) : occurrences[i].date \in S
            /\ \A i \in 1..(Len(occurrences) - 1) :
                  occurrences[i].date < occurrences[i + 1].date
            /\ \A i \in 1..Len(occurrences) :
                  Cardinality({t \in S : t < occurrences[i].date}) = i - 1

\* value 7, range [T, T + 30 days]: the list is T, T+7d, T+14d, T+21d, T+28d
C19_Witness ==
    /\ "occurrences" \in computed
    /\ calcEvent.recurrence_type = "custom_interval"
    /\ calcEvent.recurrence_unit = "days"
    /\ calcEvent.recurrence_value = 7
    /\ rangeStart = calcEvent.event_date
    /\ rangeEnd = calcEvent.event_date + 30 * Day
    /\ Len(occurrences) = 5
    /\ \A i \in 1..5 :
          occurrences[i].date = calcEvent.event_date + (i - 1) * 7 * Day

\* C20: for a one-off event the list is empty when the anchor is outside
\* [rangeStart, rangeEnd] and holds the anchor alone, numbered 1, when it is
\* inside; getNextOccurrence returns the anchor while it is later than now
\* and nothing afterwards
C20_OneOffAtMostOnce ==
    calcEvent.recurrence_type = "one_off" =>
        /\ "occurrences" \in computed =>
              occurrences =
                 IF rangeStart <= calcEvent.event_date
                    /\ calcEvent.event_date <= rangeEnd
                   THEN <<[date |-> calcEvent.event_date, occurrenceNumber |-> 1]>>
                   ELSE <<>>
        /\ "next" \in computed =>
              nextOcc = IF calcEvent.event_date > calcNow
                          THEN calcEvent.event_date ELSE Null

\* a one-off event on the first instant of the range, found once there and
\* still ahead of the clock
C20_Witness ==
    /\ calcEvent.recurrence_type = "one_off"
    /\ computed = {"occurrences", "next"}
    /\ rangeStart = calcEvent.event_date
    /\ Len(occurrences) = 1
    /\ occurrences[1].occurrenceNumber = 1
    /\ nextOcc = calcEvent.event_date

\* the occurrence numbers of the list grow strictly along the list
NumbersIncrease ==
    \A i \in 1..(Len(occurrences) - 1) :
        occurrences[i].occurrenceNumber < occurrences[i + 1].occurrenceNumber

\* every occurrence of a yearly event is numbered by the years elapsed since
\* the anchor plus 1
YearlyNumbersCountYears ==
    calcEvent.recurrence_type = "yearly" =>
        \A i \in 1..Len(occurrences) :
            occurrences[i].occurrenceNumber
                = YearOf(occurrences[i].date) - YearOf(calcEvent.event_date) + 1

C29_NumberCountsFromAnchor ==
    ( /\ "occurrences" \in computed
      /\ calcEvent.recurrence_type = "custom_interval"
      /\ calcEvent.recurrence_unit = "days" ) =>
        \A i \in 1..Len(occurrences) :
            occurrences[i].occurrenceNumber
                = (occurrences[i].date - calcEvent.event_date)
                      \div (calcEvent.recurrence_value * Day) + 1

\* the instants anchor + k * value months, each computed from the anchor
MonthGrid(event) ==
    { addMonths(event.event_date, k * event.recurrence_value) :
        k \in 0..((LastYear - YearOf(event.event_date) + 1) * 12) }

\* C30: every occurrence of a custom interval of months is the anchor plus
\* k * value months computed from the anchor with clamping, in the list and
\* as the next occurrence: an anchor on the 31st comes back to the 31st
C30_MonthsCountFromAnchor ==
    ( /\ calcEvent.recurrence_type = "custom_interval"
      /\ calcEvent.recurrence_unit = "months" ) =>
        /\ "occurrences" \in computed =>
              \A i \in 1..Len(occurrences) :
                  occurrences[i].date \in MonthGrid(calcEvent)
        /\ "next" \in computed => nextOcc \in MonthGrid(calcEvent)

---------------------------------------------------------------------------
\* Properties of the scheduler's triggers (specification SchedSpec)

\* C27: after any interleaving of init, stop and restart, two overlapping
\* restarts included, at most one periodic trigger per job class is live and
\* every live trigger is registered in the jobs map, so that stop() stops it
C27_OneLiveTriggerPerJob ==
    /\ \A t1 \in liveTasks, t2 \in liveTasks : t1.name = t2.name => t1 = t2
    /\ liveTasks \subseteq jobs

\* C25: for every custom interval event and every clock the next occurrence
\* of the Event model (estimate, jump, fine-tune) is the one found by
\* stepping from the anchor one interval at a time; for an interval of v
\* days it is anchor + k * v days, later than now, with no instant of that
\* grid after now before it
C25_JumpAheadEqualsStepping ==
    ( /\ calcEvent.recurrence_type = "custom_interval"
      /\ "eventNext" \in computed ) =>
        /\ "next" \in computed => eventNext = nextOcc
        /\ calcEvent.recurrence_unit = "days" =>
              LET step == calcEvent.recurrence_value * Day
              IN  /\ eventNext >= calcEvent.event_date
                  /\ (eventNext - calcEvent.event_date) % step = 0
                  /\ eventNext > calcNow
                  /\ eventNext > calcEvent.event_date
                        => eventNext - step <= calcNow

---------------------------------------------------------------------------
\* Properties of the digests (specification DigestSpec)

\* the occurrences of event e in the list, in the list's order
OfEvent(list, e) == SelectSeq(list, LAMBDA o : o.eventId = e.id)

\* every occurrence of event e from the clock to the end of the look-out
InHorizon(e, lookoutDays) ==
    calculateUpcomingOccurrences(e, now, now + lookoutDays * Day, 50)

\* C23: the list a digest is built from is sorted by instant and is the union,
\* over the active events, of each event's occurrences between now and
\* now + lookoutDays: the earliest 10 of an event with more than 10, and all
\* of them for an event with at most 10, however many the others have
C23_UpcomingIsCappedSortedUnion ==
    \A d \in 1..Len(digests) :
        LET up == digests[d].upcoming
        IN  /\ \A i \in 1..(Len(up) - 1) : up[i].date <= up[i + 1].date
            /\ \A i \in 1..Len(up) :
                  /\ now <= up[i].date
                  /\ up[i].date <= now + digests[d].lookoutDays * Day
                  /\ \E j \in 1..Len(events) :
                        events[j].active /\ events[j].id = up[i].eventId
            /\ \A j \in 1..Len(events) :
                  events[j].active =>
                      LET all == InHorizon(events[j], digests[d].lookoutDays)
                          mine == OfEvent(up, events[j])
                      IN  /\ Len(mine) = (IF Len(all) < 10 THEN Len(all) ELSE 10)
                          /\ \A i \in 1..Len(mine) :
                                /\ mine[i].date = all[i].date
                                /\ mine[i].occurrenceNumber
                                      = all[i].occurrenceNumber

\* a look-out of 14 days with all three events active: ten of the fourteen
\* daily occurrences, then the one-off that comes after them, and the
\* anniversary
C23_Witness ==
    \E d \in 1..Len(digests) :
        /\ digests[d].lookoutDays = 14
        /\ \A j \in 1..Len(events) : events[j].active
        /\ Len(InHorizon(events[1], 14)) = 14
        /\ Len(OfEvent(digests[d].upcoming, events[1])) = 10
        /\ Len(OfEvent(digests[d].upcoming, events[2])) = 1
        /\ Len(digests[d].upcoming) = 12
        /\ digests[d].upcoming[12].eventId = 2

\* C24: every digest sent to an address, by the daily run, the weekly run or
\* the manual send, holds only occurrences of events the address is a linked
\* recipient of
C24_DigestOnlyOwnEvents ==
    \A d \in 1..Len(digests) :
        \A i \in 1..Len(digests[d].userEvents) :
            isRecipient(events, digests[d].userEvents[i].eventId,
                        digests[d].email)

---------------------------------------------------------------------------
\* Properties of the stored recurrence settings (specification ValidSpec)

\* C22: after any sequence of create, update and bulk requests every stored
\* custom interval event has a value in 1..1000 and a unit among days,
\* months and years: a definition without value or unit, or with a value
\* above 1000, is never stored
C22_StoredCustomIntervalIsValid ==
    \A i \in 1..Len(events) :
        events[i].recurrence_type = "custom_interval" =>
            /\ events[i].recurrence_value \in 1..1000
            /\ events[i].recurrence_unit \in {"days", "months", "years"}

---------------------------------------------------------------------------
\* Properties of the matcher when the lead time exceeds the interval
\* (specification LeadSpec)

\* the occurrences of a link's event that have come since polling began
PastOccurrences(l) ==
    LET occs == calculateUpcomingOccurrences(LinkEvent(l), PollStart, now, 50)
    IN  { occs[i].date : i \in 1..Len(occs) }

\* C26: under regular polling every occurrence of an active recurring event
\* whose reminder instant falls within the polling has had a reminder emitted
\* for each linked recipient by a pass before the occurrence, whether the
\* lead time is shorter or longer than the recurrence interval
C26_EveryOccurrenceReminded ==
    \A l \in Links :
        (LinkEvent(l).active /\ LinkEvent(l).recurrence_type # "one_off") =>
            \A occ \in PastOccurrences(l) :
                PollStart <= NotifyAt(l, occ) =>
                    \E e \in EmittedFor(l, occ) : e.pass < occ

---------------------------------------------------------------------------
\* Properties of the reminder's content (specification RunSpec)

\* C28: the reminder dispatched for a due notification states the occurrence
\* the matcher computed for it, not the event's anchor: the instant handed to
\* the renderer is the notification's eventDate
C28_ReminderStatesOccurrence ==
    \A r \in 1..Len(runs) :
        runs[r].name = "notifications" =>
            \A k \in 1..Len(runs[r].log) :
                runs[r].log[k].rendered = runs[r].items[k].eventDate

=============================================================================
